---------------------------- MODULE Spec2Model ----------------------------
(***************************************************************************)
(* Model of migrate_objects.py: the migration loop that copies every       *)
(* bucket and object of a source storage project into a destination        *)
(* project through a local temporary file.  One action per statement of    *)
(* the loop that talks to a client or to the filesystem; every such call   *)
(* either returns or raises.  The model starts at line 28, with both       *)
(* clients constructed (lines 3-25 hold no loop state).                    *)
(***************************************************************************)
EXTENDS Integers, Sequences, FiniteSets, TLC

(* Bound of the model: how many calls may raise for a reason that lies in  *)
(* the environment (network, credentials, filesystem) during one run.      *)
MaxFaults == 2

BucketNames == {"photos", "docs"}
ObjectNames == {"a.jpg", "b.jpg"}
Pairs == BucketNames \X ObjectNames

(* Values of the loop variables before their loops have bound them.        *)
NoBucket == "nobucket"
NoObj == "noobj"

(* A project's buckets and objects, and the working directory's files, are *)
(* functions defined on the names that exist.                              *)
With(f, x, v) == [y \in DOMAIN f \cup {x} |-> IF y = x THEN v ELSE f[y]]
Without(f, x) == [y \in DOMAIN f \ {x} |-> f[y]]
Exists(f, x) == x \in DOMAIN f

(* Contents are byte sequences.  An opened-for-writing file is empty.      *)
Empty == << >>
OldBytes == <<"old">>

(* The bytes of source object o of bucket b: distinct objects hold         *)
(* distinct bytes, two bytes each, so a truncated copy is recognisable.    *)
SrcBytes(b, o) == <<b, o>>

(* All the orders in which a listing call may return the set S.            *)
Orders(S) ==
    {s \in [1..Cardinality(S) -> S] : \A i, j \in 1..Cardinality(S) : s[i] = s[j] => i = j}

(* The proper prefixes of c: what f.write may leave behind when it raises. *)
Prefixes(c) == {SubSeq(c, 1, k) : k \in 0..(Len(c) - 1)}

VARIABLES
    src,        \* source project: bucket -> [public, objects: name -> bytes]
    dstBuckets, \* destination project: bucket -> its public flag
    dstObjects, \* destination project: <<bucket, name>> -> bytes
    files,      \* working directory: file name -> bytes
    pc,         \* the statement the script is about to execute
    buckets,    \* buckets the outer for loop has yet to visit
    bucket,     \* loop variable of the outer loop
    objects,    \* object names the inner for loop has yet to visit
    obj,        \* loop variable of the inner loop
    res,        \* bytes returned by the last download
    faults,     \* environment failures so far
    src0,       \* history: the source project before the run
    dst0,       \* history: the destination before the run (buckets, objects)
    hadFile,    \* history: a file named obj existed when its iteration began
    blog,       \* history, per bucket: calls made and their outcomes
    olog,       \* history, per object: calls made and their outcomes
    listFailed  \* history: a listing call raised

vars == <<src, dstBuckets, dstObjects, files, pc, buckets, bucket, objects, obj,
          res, faults, src0, dst0, hadFile, blog, olog, listFailed>>

hist == <<src0, dst0>>

NewBucketLog == [listCalls |-> 0, createCalls |-> 0, createFailed |-> FALSE]
NewObjectLog ==
    [dlCalls |-> 0, dlFailed |-> FALSE, ulCalls |-> 0, ulOk |-> FALSE,
     ulFailed |-> FALSE, fsFailed |-> FALSE, rmFailed |-> FALSE, iterations |-> 0]

(* The projects and the working directory a run may start from.            *)
SourceProjects ==
    {[b \in BucketNames |->
        [public |-> pub[b], objects |-> [o \in objs[b] |-> SrcBytes(b, o)]]] :
        pub \in [BucketNames -> BOOLEAN],
        objs \in {[b \in BucketNames |-> IF b = "photos" THEN ObjectNames ELSE rest] :
                    rest \in {{"a.jpg"}, {}}}}
DestBucketSets == UNION {[held -> BOOLEAN] : held \in SUBSET BucketNames}
DestObjectSets(db) ==
    {[p \in held |-> OldBytes] :
        held \in {{}} \cup {{<<b, "a.jpg">>} : b \in DOMAIN db}}
WorkingDirs == {[o \in held |-> OldBytes] : held \in {{}, {"a.jpg"}}}

Init ==
    /\ src \in SourceProjects
    /\ dstBuckets \in DestBucketSets
    /\ dstObjects \in DestObjectSets(dstBuckets)
    /\ files \in WorkingDirs
    /\ pc = "list_buckets"
    /\ buckets = << >>
    /\ bucket = NoBucket
    /\ objects = << >>
    /\ obj = NoObj
    /\ res = Empty
    /\ faults = 0
    /\ src0 = src
    /\ dst0 = [buckets |-> dstBuckets, objects |-> dstObjects]
    /\ hadFile = FALSE
    /\ blog = [b \in BucketNames |-> NewBucketLog]
    /\ olog = [p \in Pairs |-> NewObjectLog]
    /\ listFailed = FALSE

(* A call may raise for an environmental reason while faults remain.       *)
MayFault == faults < MaxFaults
Fault == faults' = faults + 1

cur == <<bucket, obj>>

(* An unhandled exception: the interpreter prints it and exits.            *)
Crash ==
    /\ pc' = "crashed"
    /\ UNCHANGED <<buckets, bucket, objects, obj, res>>

(* The inner loop body ends for obj: control returns to the for statement. *)
EndIteration(log) ==
    /\ pc' = "for_obj"
    /\ olog' = [olog EXCEPT ![cur] = [log EXCEPT !.iterations = @ + 1]]
    /\ UNCHANGED <<buckets, bucket, objects, obj>>

(* line 28: buckets = old_supabase_client.storage().list_buckets()         *)
ListBuckets ==
    /\ pc = "list_buckets"
    /\ \/ /\ \E order \in Orders(DOMAIN src) : buckets' = order
          /\ pc' = "for_bucket"
          /\ UNCHANGED <<bucket, objects, obj, res, faults, listFailed>>
       \/ /\ MayFault /\ Fault
          /\ listFailed' = TRUE
          /\ Crash
    /\ UNCHANGED <<src, dstBuckets, dstObjects, files, hist, hadFile, blog, olog>>

(* ForBucket as it would be with the listing of line 31 left out of the    *)
(* loop body: the bucket is created without its objects being listed.      *)
ForBucketSkipsList ==
    /\ pc = "for_bucket"
    /\ \/ /\ buckets # << >>
          /\ bucket' = Head(buckets)
          /\ buckets' = Tail(buckets)
          /\ pc' = "create_bucket"
       \/ /\ buckets = << >>
          /\ pc' = "done"
          /\ UNCHANGED <<bucket, buckets>>
    /\ UNCHANGED <<src, dstBuckets, dstObjects, files, objects, obj, res, faults,
                   hist, hadFile, blog, olog, listFailed>>

(* lines 29-30: for bucket in buckets: print(...)                          *)
ForBucket ==
    /\ pc = "for_bucket"
    /\ \/ /\ buckets # << >>
          /\ bucket' = Head(buckets)
          /\ buckets' = Tail(buckets)
          /\ pc' = "list_objects"
       \/ /\ buckets = << >>
          /\ pc' = "done"
          /\ UNCHANGED <<bucket, buckets>>
    /\ UNCHANGED <<src, dstBuckets, dstObjects, files, objects, obj, res, faults,
                   hist, hadFile, blog, olog, listFailed>>

(* ListObjects as it would be inside a try block of its own: a failed      *)
(* listing is logged and the bucket is treated as empty.                   *)
ListObjectsHandled ==
    /\ pc = "list_objects"
    /\ blog' = [blog EXCEPT ![bucket].listCalls = @ + 1]
    /\ \/ /\ \E order \in Orders(DOMAIN src[bucket].objects) : objects' = order
          /\ UNCHANGED <<faults, listFailed>>
       \/ /\ MayFault /\ Fault
          /\ listFailed' = TRUE
          /\ objects' = << >>
    /\ pc' = "create_bucket"
    /\ UNCHANGED <<buckets, bucket, obj, res>>
    /\ UNCHANGED <<src, dstBuckets, dstObjects, files, hist, hadFile, olog>>

(* line 31: objects = old_supabase_client.storage().from_(bucket.name).list() *)
ListObjects ==
    /\ pc = "list_objects"
    /\ blog' = [blog EXCEPT ![bucket].listCalls = @ + 1]
    /\ \/ /\ \E order \in Orders(DOMAIN src[bucket].objects) : objects' = order
          /\ pc' = "create_bucket"
          /\ UNCHANGED <<buckets, bucket, obj, res, faults, listFailed>>
       \/ /\ MayFault /\ Fault
          /\ listFailed' = TRUE
          /\ Crash
    /\ UNCHANGED <<src, dstBuckets, dstObjects, files, hist, hadFile, olog>>

(* CreateBucket as it would be without the public= argument: the bucket    *)
(* is created private whatever the source says.                            *)
CreateBucketPrivate ==
    /\ pc = "create_bucket"
    /\ \/ /\ ~Exists(dstBuckets, bucket)
          /\ dstBuckets' = With(dstBuckets, bucket, FALSE)
          /\ blog' = [blog EXCEPT ![bucket].createCalls = @ + 1]
          /\ UNCHANGED faults
       \/ /\ Exists(dstBuckets, bucket)
          /\ blog' = [blog EXCEPT ![bucket].createCalls = @ + 1,
                                  ![bucket].createFailed = TRUE]
          /\ UNCHANGED <<dstBuckets, faults>>
    /\ pc' = "for_obj"
    /\ obj' = NoObj
    /\ UNCHANGED <<src, dstObjects, files, buckets, bucket, objects, res, hist,
                   hadFile, olog, listFailed>>

(* lines 32-35: try: create_bucket(bucket.name, public=bucket.public)      *)
(*              except: print("unable to create bucket")                   *)
CreateBucket ==
    /\ pc = "create_bucket"
    /\ \/ /\ ~Exists(dstBuckets, bucket)
          /\ dstBuckets' = With(dstBuckets, bucket, src[bucket].public)
          /\ blog' = [blog EXCEPT ![bucket].createCalls = @ + 1]
          /\ UNCHANGED faults
       \/ /\ Exists(dstBuckets, bucket)
          /\ blog' = [blog EXCEPT ![bucket].createCalls = @ + 1,
                                  ![bucket].createFailed = TRUE]
          /\ UNCHANGED <<dstBuckets, faults>>
       \/ /\ ~Exists(dstBuckets, bucket)
          /\ MayFault /\ Fault
          /\ blog' = [blog EXCEPT ![bucket].createCalls = @ + 1,
                                  ![bucket].createFailed = TRUE]
          /\ UNCHANGED dstBuckets
    /\ pc' = "for_obj"
    /\ obj' = NoObj
    /\ UNCHANGED <<src, dstObjects, files, buckets, bucket, objects, res, hist,
                   hadFile, olog, listFailed>>

(* lines 36-37: for obj in objects: print(obj['name'])                     *)
ForObj ==
    /\ pc = "for_obj"
    /\ \/ /\ objects # << >>
          /\ obj' = Head(objects)
          /\ objects' = Tail(objects)
          /\ hadFile' = Exists(files, Head(objects))
          /\ pc' = "open_wb"
       \/ /\ objects = << >>
          /\ pc' = "for_bucket"
          /\ UNCHANGED <<obj, objects, hadFile>>
    /\ UNCHANGED <<src, dstBuckets, dstObjects, files, buckets, bucket, res, faults,
                   hist, blog, olog, listFailed>>

(* line 39: with open(obj['name'], 'wb+') as f: creates or truncates the   *)
(* file; an OSError is caught at line 43 and control reaches line 45.      *)
OpenWrite ==
    /\ pc = "open_wb"
    /\ \/ /\ files' = With(files, obj, Empty)
          /\ pc' = "download"
          /\ UNCHANGED <<faults, olog>>
       \/ /\ MayFault /\ Fault
          /\ olog' = [olog EXCEPT ![cur].fsFailed = TRUE]
          /\ pc' = "open_rb"
          /\ UNCHANGED files
    /\ UNCHANGED <<src, dstBuckets, dstObjects, buckets, bucket, objects, obj, res,
                   hist, hadFile, blog, listFailed>>

(* Download as it would be outside any try block: a failed download is an  *)
(* unhandled exception.                                                    *)
DownloadUnhandled ==
    /\ pc = "download"
    /\ \/ /\ res' = src[bucket].objects[obj]
          /\ olog' = [olog EXCEPT ![cur].dlCalls = @ + 1]
          /\ pc' = "write"
          /\ UNCHANGED <<faults, buckets, bucket, objects, obj>>
       \/ /\ MayFault /\ Fault
          /\ olog' = [olog EXCEPT ![cur].dlCalls = @ + 1, ![cur].dlFailed = TRUE]
          /\ Crash
    /\ UNCHANGED <<src, dstBuckets, dstObjects, files, hist, hadFile, blog, listFailed>>

(* line 40: res = old_supabase_client...download(obj['name']); an          *)
(* exception closes the file, is caught at line 43, and control reaches    *)
(* line 45.                                                                *)
Download ==
    /\ pc = "download"
    /\ \/ /\ res' = src[bucket].objects[obj]
          /\ olog' = [olog EXCEPT ![cur].dlCalls = @ + 1]
          /\ pc' = "write"
          /\ UNCHANGED faults
       \/ /\ MayFault /\ Fault
          /\ olog' = [olog EXCEPT ![cur].dlCalls = @ + 1, ![cur].dlFailed = TRUE]
          /\ pc' = "open_rb"
          /\ UNCHANGED res
    /\ UNCHANGED <<src, dstBuckets, dstObjects, files, buckets, bucket, objects, obj,
                   hist, hadFile, blog, listFailed>>

(* lines 41-42: f.write(res); f.close(); an OSError leaves a proper prefix *)
(* of res in the file, is caught at line 43, and control reaches line 45.  *)
WriteFile ==
    /\ pc = "write"
    /\ \/ /\ files' = With(files, obj, res)
          /\ UNCHANGED <<faults, olog>>
       \/ /\ MayFault /\ Fault
          /\ \E part \in Prefixes(res) : files' = With(files, obj, part)
          /\ olog' = [olog EXCEPT ![cur].fsFailed = TRUE]
    /\ pc' = "open_rb"
    /\ UNCHANGED <<src, dstBuckets, dstObjects, buckets, bucket, objects, obj, res,
                   hist, hadFile, blog, listFailed>>

(* line 46: with open(obj['name'], 'rb+') as f: raises when the file does  *)
(* not exist or cannot be opened; caught at line 51.                       *)
OpenRead ==
    /\ pc = "open_rb"
    /\ \/ /\ Exists(files, obj)
          /\ pc' = "upload"
          /\ UNCHANGED <<faults, olog, buckets, bucket, objects, obj>>
       \/ /\ ~Exists(files, obj)
          /\ EndIteration([olog[cur] EXCEPT !.fsFailed = TRUE])
          /\ UNCHANGED faults
       \/ /\ Exists(files, obj)
          /\ MayFault /\ Fault
          /\ EndIteration([olog[cur] EXCEPT !.fsFailed = TRUE])
    /\ UNCHANGED <<src, dstBuckets, dstObjects, files, res, hist, hadFile, blog,
                   listFailed>>

(* Upload as it would be with the upsert option: an object the             *)
(* destination already holds is overwritten.                               *)
UploadUpsert ==
    /\ pc = "upload"
    /\ \/ /\ Exists(dstBuckets, bucket)
          /\ dstObjects' = With(dstObjects, cur, files[obj])
          /\ olog' = [olog EXCEPT ![cur].ulCalls = @ + 1, ![cur].ulOk = TRUE]
          /\ pc' = "remove"
          /\ UNCHANGED <<faults, buckets, bucket, objects, obj>>
       \/ /\ ~Exists(dstBuckets, bucket)
          /\ EndIteration([olog[cur] EXCEPT !.ulCalls = @ + 1, !.ulFailed = TRUE])
          /\ UNCHANGED <<dstObjects, faults>>
    /\ UNCHANGED <<src, dstBuckets, files, res, hist, hadFile, blog, listFailed>>

(* line 47: new_supabase_client...upload(obj['name'], obj['name']) sends   *)
(* the bytes of the local file; raises when the destination has no such    *)
(* bucket, already holds the name, or the network fails; caught at line 51.*)
Upload ==
    /\ pc = "upload"
    /\ \/ /\ Exists(dstBuckets, bucket)
          /\ ~Exists(dstObjects, cur)
          /\ dstObjects' = With(dstObjects, cur, files[obj])
          /\ olog' = [olog EXCEPT ![cur].ulCalls = @ + 1, ![cur].ulOk = TRUE]
          /\ pc' = "remove"
          /\ UNCHANGED <<faults, buckets, bucket, objects, obj>>
       \/ /\ ~Exists(dstBuckets, bucket) \/ Exists(dstObjects, cur)
          /\ EndIteration([olog[cur] EXCEPT !.ulCalls = @ + 1, !.ulFailed = TRUE])
          /\ UNCHANGED <<dstObjects, faults>>
       \/ /\ Exists(dstBuckets, bucket)
          /\ ~Exists(dstObjects, cur)
          /\ MayFault /\ Fault
          /\ EndIteration([olog[cur] EXCEPT !.ulCalls = @ + 1, !.ulFailed = TRUE])
          /\ UNCHANGED dstObjects
    /\ UNCHANGED <<src, dstBuckets, files, res, hist, hadFile, blog, listFailed>>

(* Remove as it would be with the deletion left out.                       *)
RemoveSkipped ==
    /\ pc = "remove"
    /\ EndIteration(olog[cur])
    /\ UNCHANGED <<files, faults>>
    /\ UNCHANGED <<src, dstBuckets, dstObjects, res, hist, hadFile, blog, listFailed>>

(* lines 49-52: if os.path.exists(...): os.remove(...); an OSError of      *)
(* os.remove is caught at line 51.                                         *)
Remove ==
    /\ pc = "remove"
    /\ \/ /\ Exists(files, obj)
          /\ files' = Without(files, obj)
          /\ EndIteration(olog[cur])
          /\ UNCHANGED faults
       \/ /\ ~Exists(files, obj)
          /\ EndIteration(olog[cur])
          /\ UNCHANGED <<files, faults>>
       \/ /\ Exists(files, obj)
          /\ MayFault /\ Fault
          /\ EndIteration([olog[cur] EXCEPT !.fsFailed = TRUE, !.rmFailed = TRUE])
          /\ UNCHANGED files
    /\ UNCHANGED <<src, dstBuckets, dstObjects, res, hist, hadFile, blog, listFailed>>

Next ==
    \/ ListBuckets
    \/ ForBucket
    \/ ListObjects
    \/ CreateBucket
    \/ ForObj
    \/ OpenWrite
    \/ Download
    \/ WriteFile
    \/ OpenRead
    \/ Upload
    \/ Remove

Spec == Init /\ [][Next]_vars

(***************************************************************************)
(* Vocabulary of the properties.                                           *)
(***************************************************************************)
(* The run has ended, normally or by an unhandled exception.               *)
Finished == pc \in {"done", "crashed"}

(* The inner loop body has just ended for object obj of bucket bucket.     *)
IterationEnded == pc = "for_obj" /\ obj # NoObj

(* The objects of the source project.                                      *)
SrcPairs == {p \in Pairs : p[2] \in DOMAIN src[p[1]].objects}
SrcContent(p) == src[p[1]].objects[p[2]]

(* The destination holds p with the bytes of the source object.            *)
CopiedIntact(p) == Exists(dstObjects, p) /\ dstObjects[p] = SrcContent(p)

DownloadOk(p) == olog[p].dlCalls > 0 /\ ~olog[p].dlFailed

(***************************************************************************)
(* C1: every object whose download and whose upload succeeded is, when the *)
(* run has ended, in the destination bucket with the source's bytes.       *)
(***************************************************************************)
C1_DownloadedAndUploadedIsIntact ==
    Finished => \A p \in SrcPairs : DownloadOk(p) /\ olog[p].ulOk => CopiedIntact(p)

(***************************************************************************)
(* C2: an object whose download failed is never uploaded: no upload call   *)
(* is issued for it.                                                       *)
(***************************************************************************)
C2_NoUploadAfterFailedDownload ==
    \A p \in Pairs : olog[p].dlFailed => olog[p].ulCalls = 0

(***************************************************************************)
(* C3: when the processing of an object whose download failed has ended,   *)
(* no local file of its name exists, if none existed before.               *)
(***************************************************************************)
C3_NoFileAfterFailedDownload ==
    IterationEnded /\ olog[cur].dlFailed /\ ~hadFile => ~Exists(files, obj)

(***************************************************************************)
(* C4: the local file of an object is deleted exactly when its upload      *)
(* succeeded: gone after a successful upload call, still there after a     *)
(* failed one.                                                             *)
(***************************************************************************)
C4_DeletedIffUploaded ==
    IterationEnded =>
        /\ olog[cur].ulOk => ~Exists(files, obj)
        /\ olog[cur].ulFailed => Exists(files, obj)

(* C4 as amended: after a successful upload call the file is gone unless   *)
(* os.remove itself raised; after a failed upload call it is still there;  *)
(* and the object is processed once, so nothing removes it later on its    *)
(* behalf.                                                                 *)
C4_DeletedIffUploadedAndRemoved ==
    /\ IterationEnded =>
        /\ olog[cur].ulOk /\ ~olog[cur].rmFailed => ~Exists(files, obj)
        /\ olog[cur].ulOk /\ olog[cur].rmFailed => Exists(files, obj)
        /\ olog[cur].ulFailed => Exists(files, obj)
    /\ \A p \in Pairs : olog[p].iterations <= 1 /\ ~(olog[p].ulOk /\ olog[p].ulFailed)

C4_Witness ==
    /\ pc = "done"
    /\ \E p, q \in SrcPairs :
        /\ olog[p].ulOk /\ ~olog[p].rmFailed /\ ~Exists(files, p[2])
        /\ olog[q].ulFailed /\ Exists(files, q[2])

(***************************************************************************)
(* C5: no handled failure halts the loop: the run stops early only when a  *)
(* listing call raised; every object is downloaded, uploaded and processed *)
(* at most once; a run whose listing calls succeeded processes every       *)
(* source object exactly once; and an object of a bucket the destination   *)
(* already had is copied into it when none of its steps fails.             *)
(***************************************************************************)
C5_HandledFailuresDoNotHalt ==
    /\ pc = "crashed" => listFailed
    /\ ~Finished => ENABLED Next
    /\ \A p \in Pairs :
        /\ olog[p].dlCalls <= 1 /\ olog[p].ulCalls <= 1 /\ olog[p].iterations <= 1
        /\ p \notin SrcPairs => olog[p].iterations = 0
    /\ pc = "done" => \A p \in SrcPairs : olog[p].iterations = 1
    /\ IterationEnded /\ Exists(dst0.buckets, bucket)
         /\ ~olog[cur].dlFailed /\ ~olog[cur].fsFailed /\ ~olog[cur].ulFailed
       => CopiedIntact(cur)

C5_Witness ==
    /\ pc = "done"
    /\ \E b \in DOMAIN dst0.buckets :
        /\ blog[b].createFailed
        /\ \E o \in ObjectNames : olog[<<b, o>>].ulOk /\ CopiedIntact(<<b, o>>)
    /\ \E p \in SrcPairs : olog[p].dlFailed /\ olog[p].iterations = 1
    /\ \E p \in SrcPairs : olog[p].ulFailed /\ olog[p].iterations = 1

(***************************************************************************)
(* C6: every source bucket the destination lacked before the run exists in *)
(* the destination, with the source's visibility, when the run has ended.  *)
(***************************************************************************)
C6_NewBucketsCreated ==
    Finished =>
        \A b \in DOMAIN src :
            ~Exists(dst0.buckets, b) =>
                Exists(dstBuckets, b) /\ dstBuckets[b] = src[b].public

(* C6 as amended: ... provided no listing call raised (the run reached     *)
(* create_bucket for every bucket) and create_bucket did not raise for the *)
(* bucket.                                                                 *)
C6_NewBucketsCreatedUnlessFailed ==
    /\ \A b \in DOMAIN src :
        ~Exists(dst0.buckets, b) /\ blog[b].createCalls > 0 /\ ~blog[b].createFailed
            => Exists(dstBuckets, b) /\ dstBuckets[b] = src[b].public
    /\ pc = "done" => \A b \in DOMAIN src : blog[b].createCalls = 1

C6_Witness ==
    /\ pc = "done"
    /\ \E b \in DOMAIN src :
        /\ ~Exists(dst0.buckets, b) /\ ~blog[b].createFailed
        /\ src[b].public /\ Exists(dstBuckets, b) /\ dstBuckets[b]

(***************************************************************************)
(* C7: a failure other than create_bucket, download or upload - a listing  *)
(* call, or opening, writing or removing the local file - terminates the   *)
(* run.                                                                    *)
(***************************************************************************)
C7_OtherFailuresTerminate ==
    (listFailed \/ \E p \in Pairs : olog[p].fsFailed) => pc = "crashed"

(* C7 as amended: the run is terminated by a failed listing call and by    *)
(* nothing else, and nothing is processed after it; a filesystem error on  *)
(* the local file is caught by the handlers of the loop body, which goes   *)
(* on to the end of the iteration.                                         *)
C7_OnlyListingFailuresTerminate ==
    /\ listFailed <=> pc = "crashed"
    /\ pc = "crashed" => ~ENABLED Next
    /\ IterationEnded /\ olog[cur].fsFailed => olog[cur].iterations = 1

C7_Witness ==
    /\ pc = "crashed"
    /\ \E p \in Pairs : olog[p].fsFailed /\ olog[p].iterations = 1

(***************************************************************************)
(* C8: every object the run has uploaded holds the bytes of the source     *)
(* object, in every reachable state.                                       *)
(***************************************************************************)
C8_UploadsAreIntact ==
    \A p \in Pairs : olog[p].ulOk => CopiedIntact(p)

(***************************************************************************)
(* C9: create_bucket is attempted for a bucket before its objects are      *)
(* listed.                                                                 *)
(***************************************************************************)
C9_CreateBeforeList ==
    \A b \in BucketNames : blog[b].listCalls > 0 => blog[b].createCalls > 0

(* C9 as amended: the objects of a bucket are listed before create_bucket  *)
(* is attempted for it, and only after both are its objects transferred;   *)
(* if the listing fails, the run has not created the bucket nor attempted  *)
(* to.                                                                     *)
C9_ListBeforeCreate ==
    /\ \A b \in BucketNames : blog[b].createCalls > 0 => blog[b].listCalls > 0
    /\ pc \in {"open_wb", "download", "write", "open_rb", "upload", "remove"}
         => blog[bucket].listCalls > 0 /\ blog[bucket].createCalls > 0
    /\ pc = "crashed" /\ bucket # NoBucket /\ blog[bucket].listCalls > 0
         => /\ blog[bucket].createCalls = 0
            /\ Exists(dstBuckets, bucket) <=> Exists(dst0.buckets, bucket)

C9_Witness ==
    /\ pc = "crashed"
    /\ bucket # NoBucket
    /\ blog[bucket].listCalls = 1
    /\ blog[bucket].createCalls = 0
    /\ ~Exists(dstBuckets, bucket)
    /\ \E b \in BucketNames : blog[b].createCalls = 1 /\ blog[b].listCalls = 1

(***************************************************************************)
(* C10: the run only adds to the destination and leaves the source alone:  *)
(* every bucket and object the destination had before the run is still     *)
(* there with its visibility and bytes (an upload to a name it already     *)
(* holds fails), and the source project is as it was.                      *)
(***************************************************************************)
C10_OnlyAddsToDestination ==
    /\ src = src0
    /\ \A b \in DOMAIN dst0.buckets :
        Exists(dstBuckets, b) /\ dstBuckets[b] = dst0.buckets[b]
    /\ \A p \in DOMAIN dst0.objects :
        /\ Exists(dstObjects, p) /\ dstObjects[p] = dst0.objects[p]
        /\ ~olog[p].ulOk

C10_Witness ==
    /\ pc = "done"
    /\ \E p \in DOMAIN dst0.objects : olog[p].ulFailed /\ dstObjects[p] = OldBytes
    /\ \E p \in SrcPairs : olog[p].ulOk /\ ~Exists(dst0.objects, p)
    /\ \E b \in DOMAIN dst0.buckets : dstBuckets[b] # src[b].public


=============================================================================
